---- MODULE Spec2Model ----
(***************************************************************************)
(* HTTP logging/tracing middleware of pkg/middleware (WithLogger,          *)
(* TracedMiddleware, statusResponseWriter).                                *)
(*                                                                         *)
(* One request at a time is carried through the middleware; the server     *)
(* accepts up to MaxRequests requests one after the other.  A second       *)
(* specification, SpecWriter, drives a statusResponseWriter on its own      *)
(* with arbitrary call sequences.                                          *)
(***************************************************************************)
EXTENDS Integers, Sequences, FiniteSets, TLC

\* ------------------------------------------------------------------ bounds
MaxRequests == 2
MaxCalls == 3

\* ------------------------------------------------------- program constants
StatusOK == 200
StatusBadRequest == 400
StatusInternalServerError == 500

\* --------------------------------------------------------------- strings
\* Content types are Go strings; their bytes are needed by strings.ToLower
\* and strings.Contains.
Chars(s) ==
  CASE s = "application/json" -> <<"a", "p", "p", "l", "i", "c", "a", "t", "i", "o", "n", "/", "j", "s", "o", "n">>
    [] s = "Application/JSON" -> <<"A", "p", "p", "l", "i", "c", "a", "t", "i", "o", "n", "/", "J", "S", "O", "N">>
    [] s = "application/json; charset=utf-8" -> <<"a", "p", "p", "l", "i", "c", "a", "t", "i", "o", "n", "/", "j", "s", "o", "n", ";", " ", "c", "h", "a", "r", "s", "e", "t", "=", "u", "t", "f", "-", "8">>
    [] s = "application/x-www-form-urlencoded" -> <<"a", "p", "p", "l", "i", "c", "a", "t", "i", "o", "n", "/", "x", "-", "w", "w", "w", "-", "f", "o", "r", "m", "-", "u", "r", "l", "e", "n", "c", "o", "d", "e", "d">>
    [] s = "application/xml" -> <<"a", "p", "p", "l", "i", "c", "a", "t", "i", "o", "n", "/", "x", "m", "l">>
    [] s = "text/xml" -> <<"t", "e", "x", "t", "/", "x", "m", "l">>
    [] s = "text/plain" -> <<"t", "e", "x", "t", "/", "p", "l", "a", "i", "n">>
    [] s = "" -> <<>>

UpperLetters == <<"A", "B", "C", "D", "E", "F", "G", "H", "I", "J", "K", "L", "M", "N", "O", "P", "Q", "R", "S", "T", "U", "V", "W", "X", "Y", "Z">>

LowerLetters == <<"a", "b", "c", "d", "e", "f", "g", "h", "i", "j", "k", "l", "m", "n", "o", "p", "q", "r", "s", "t", "u", "v", "w", "x", "y", "z">>

\* strings.ToLower on a byte sequence of ASCII characters
ToLower(cs) ==
  [i \in DOMAIN cs |->
     IF \E k \in DOMAIN UpperLetters : UpperLetters[k] = cs[i]
     THEN LowerLetters[CHOOSE k \in DOMAIN UpperLetters : UpperLetters[k] = cs[i]]
     ELSE cs[i]]

\* strings.Contains(cs, sub)
Contains(cs, sub) ==
  \E i \in 1..(Len(cs) - Len(sub) + 1) : SubSeq(cs, i, i + Len(sub) - 1) = sub

JSONType == Chars("application/json")
FormType == Chars("application/x-www-form-urlencoded")
XMLType == Chars("application/xml")
TextXMLType == Chars("text/xml")

shouldLogBody_AllowAll(contentType) == TRUE

shouldLogBody(contentType) ==
  LET ct == ToLower(Chars(contentType)) IN
  \/ Contains(ct, JSONType)
  \/ Contains(ct, FormType)
  \/ Contains(ct, XMLType)
  \/ Contains(ct, TextXMLType)

\* ------------------------------------------------------ request inputs
ContentTypes ==
  {"application/json", "Application/JSON", "application/json; charset=utf-8",
   "application/x-www-form-urlencoded", "application/xml", "text/xml",
   "text/plain", ""}

\* shouldLogBody and the case selection of the body switches, per content type
shouldLogBodyOf == [c \in ContentTypes |-> shouldLogBody(c)]

\* logReqBody := opts.LogRequestBody && shouldLogBody(reqContentType)
logReqBody_AnyOption(o, contentType) == shouldLogBodyOf[contentType]

logReqBody(o, contentType) == o.LogRequestBody /\ shouldLogBodyOf[contentType]

\* the case of "switch { case strings.Contains(contentType, ...) }" taken on
\* the request path
RequestBodyCase(contentType) ==
  LET ct == Chars(contentType) IN
  IF Contains(ct, JSONType) THEN "json"
  ELSE IF Contains(ct, FormType) THEN "form"
  ELSE IF Contains(ct, XMLType) \/ Contains(ct, TextXMLType) THEN "xml"
  ELSE "raw"

RequestBodyCaseOf == [c \in ContentTypes |-> RequestBodyCase(c)]

\* the case taken on the response path (there is no form case)
ResponseBodyCase(contentType) ==
  LET ct == Chars(contentType) IN
  IF Contains(ct, JSONType) THEN "json"
  ELSE IF Contains(ct, XMLType) \/ Contains(ct, TextXMLType) THEN "xml"
  ELSE "raw"

ResponseBodyCaseOf == [c \in ContentTypes |-> ResponseBodyCase(c)]

Bodies == {"", "{\"a\":1}", "not-json", "a=1", "%zz", "<a/>", "<a>", "<a/><"}

Methods == {"GET", "POST"}

\* value of the configured request-id header on the request ("" = absent)
RequestIDHeaders == {"", "client-7"}

\* json.Unmarshal(body, &interface{}) succeeds: of Bodies only the object is
\* a JSON value (the empty input is "unexpected end of JSON input").
JSONUnmarshalOK(b) == b \in {"{\"a\":1}"}

\* xml.Unmarshal(body, &interface{}) succeeds: the decoder looks for the first
\* start element and skips to its matching end; the target is a nil interface
\* and is left untouched, and input after the first element is not looked at.
XMLUnmarshalOK(b) == b \in {"<a/>", "<a/><"}

\* url.ParseQuery(body) succeeds: only an invalid percent-escape fails
ParseQueryOK(b) == b # "%zz"

\* mime.ParseMediaType(ct) names application/x-www-form-urlencoded
IsFormMediaType(ct) == ct = "application/x-www-form-urlencoded"

\* A request has no body (r.Body == nil), a body that is delivered in full, or
\* a body whose stream breaks with a transport error before any byte arrives
Requests ==
  {[id |-> i, ct |-> c, method |-> m, hasBody |-> TRUE, body |-> b, readErr |-> FALSE] :
     i \in RequestIDHeaders, c \in ContentTypes, m \in Methods, b \in Bodies}
  \cup
  {[id |-> i, ct |-> c, method |-> m, hasBody |-> TRUE, body |-> "", readErr |-> TRUE] :
     i \in RequestIDHeaders, c \in ContentTypes, m \in Methods}
  \cup
  {[id |-> i, ct |-> c, method |-> m, hasBody |-> FALSE, body |-> "", readErr |-> FALSE] :
     i \in RequestIDHeaders, c \in ContentTypes, m \in Methods}

NoRequest == [id |-> "", ct |-> "", method |-> "GET", hasBody |-> FALSE, body |-> "", readErr |-> FALSE]

\* r.Body as a stream: nil, or the bytes still to be delivered, the error
\* (instead of EOF) that ends it, and whether it is the in-memory replay buffer
BodyStream(req) ==
  [nil |-> ~req.hasBody, buffer |-> FALSE, rest |-> req.body, err |-> req.readErr]

Unread == "<unread>"

\* ------------------------------------------------- underlying ResponseWriter
SinkCaps == [flusher : BOOLEAN, hijacker : BOOLEAN, reader : {"none", "ok", "err"}]

\* the writers a server hands to the middleware; the middleware and the
\* modelled handler never hijack
ServerSinks == {c \in SinkCaps : ~c.hijacker}

NoHeader == [xRequestId |-> "", contentType |-> ""]

NewSink(caps) ==
  [caps |-> caps, header |-> NoHeader, wroteHeader |-> FALSE, status |-> 0,
   sent |-> NoHeader, body |-> "", flushes |-> 0, hijacks |-> 0, log |-> <<>>]

\* http.ResponseWriter.WriteHeader: only the first call sends the status line
\* and the header map as it stands
SinkSendHeader(s, code) ==
  IF s.wroteHeader THEN s
  ELSE [s EXCEPT !.wroteHeader = TRUE, !.status = code, !.sent = s.header]

\* cached is the wrapper's statusCode field at the moment of the call
SinkWriteHeader(s, code, cached) ==
  [SinkSendHeader(s, code) EXCEPT
     !.log = Append(s.log, [op |-> "WriteHeader", code |-> code, cached |-> cached])]

\* http.ResponseWriter.Write: an implicit WriteHeader(200) if none was sent
SinkWrite(s, b) ==
  [SinkSendHeader(s, StatusOK) EXCEPT !.body = s.body \o b]

\* http.Flusher.Flush: sends the header if needed
SinkFlush(s) ==
  [SinkSendHeader(s, StatusOK) EXCEPT !.flushes = s.flushes + 1]

\* http.Hijacker.Hijack
SinkHijack(s) == [s EXCEPT !.hijacks = s.hijacks + 1]

SinkConn == [conn |-> "sink-conn", rw |-> "sink-rw", err |-> "nil"]

\* http.Error(w, msg, code): Content-Type, the status line, then the message
\* and a newline
HttpError_NoNewline(s, msg, code) ==
  LET h == [s EXCEPT !.header.contentType = "text/plain; charset=utf-8"] IN
  SinkWrite(SinkSendHeader(h, code), msg)

HttpError(s, msg, code) ==
  LET h == [s EXCEPT !.header.contentType = "text/plain; charset=utf-8"] IN
  SinkWrite(SinkSendHeader(h, code), msg \o "\n")

\* --------------------------------------------------- statusResponseWriter
NoWriter == [made |-> FALSE, statusCode |-> 0]

wrapResponseWriter == [made |-> TRUE, statusCode |-> 0]

\* WriteHeader(code): returns <<wrapper, sink>>
WriteHeader_FirstWins(sw, s, code) ==
  LET sw1 == IF sw.statusCode = 0 THEN [sw EXCEPT !.statusCode = code] ELSE sw IN
  <<sw1, SinkWriteHeader(s, code, sw1.statusCode)>>

WriteHeader(sw, s, code) ==
  LET sw1 == [sw EXCEPT !.statusCode = code] IN
  <<sw1, SinkWriteHeader(s, code, sw1.statusCode)>>

Status(sw) == IF sw.statusCode = 0 THEN StatusOK ELSE sw.statusCode

\* Flush(): returns the sink
Flush(s) == IF s.caps.flusher THEN SinkFlush(s) ELSE s

HijackUnsupported ==
  [conn |-> "nil", rw |-> "nil",
   err |-> "underlying ResponseWriter does not implement http.Hijacker"]

\* Hijack(): returns <<result, sink>>
Hijack_NoError(s) ==
  IF s.caps.hijacker THEN <<SinkConn, SinkHijack(s)>>
  ELSE <<[conn |-> "nil", rw |-> "nil", err |-> "nil"], s>>

Hijack(s) ==
  IF s.caps.hijacker THEN <<SinkConn, SinkHijack(s)>>
  ELSE <<HijackUnsupported, s>>

\* ------------------------------------------------------------ the state
VARIABLES
  opts,       \* LoggerOptions given to WithLogger
  nreq,       \* requests accepted so far
  uuidSeq,    \* how many ids uuid.New() has produced
  ids,        \* the ids generated so far, one per request that needed one
  pc,         \* position of the request in the middleware
  mw,         \* the middleware serving the request
  r,          \* the request as received
  rbody,      \* r.Body
  reads,      \* who has read from the connection's body stream
  requestID,  \* requestID of the request
  w,          \* the ResponseWriter handed to the middleware
  ww,         \* wrappedWriter
  span,       \* the span of the request
  ctx,        \* keys attached to the request context, in order
  handler,    \* what the downstream handler did and saw
  stages,     \* the stages of the request, in the order they happened
  logs,       \* messages logged for the request
  calls,      \* calls made on the writer (SpecWriter)
  ret,        \* result of the last Hijack call
  whHistory   \* codes passed to statusResponseWriter.WriteHeader

\* the test harness (pkg/itf)
VARIABLES
  suite,      \* the Suite: user, env.User, env.Ctx, middlewares, beforeEach
  asUser,     \* the argument of the most recent AsUser call
  request,    \* the Request being built
  mdata,      \* the MultipartData being built
  recorders,  \* the httptest recorders allocated so far
  responses,  \* the Response handles Expect returned, in order
  seen        \* what the router and the handler saw in the last dispatch

suiteVars == <<suite, asUser, request, mdata, recorders, responses, seen>>

\* pkg/fp and the warehouse position repository
VARIABLES
  reducer,    \* the function fp.Reduce returned: its callback and captured acc
  repo        \* the position repository: its rows and the last GetByID result

libraryVars == <<reducer, repo>>

\* WithLogger serving several requests at once
VARIABLES
  process,    \* what all workers share: the options, configuration, logger, tracer
  workers,    \* the local variables of each worker's call of the handler
  heap        \* the objects the workers allocated, each with the worker that did

workerVars == <<process, workers, heap>>

componentVars == <<suiteVars, libraryVars, workerVars>>

vars == <<opts, nreq, uuidSeq, ids, pc, mw, r, rbody, reads, requestID, w, ww,
          span, ctx, handler, stages, logs, calls, ret, whHistory, componentVars>>

writerVars == <<calls, ret>>

\* the variables of the logging middleware and of its response writer
serverVars == <<opts, nreq, uuidSeq, ids, pc, mw, r, rbody, reads, requestID, w, ww,
                span, ctx, handler, stages, logs, calls, ret, whHistory, workerVars>>

LoggerOptions == [LogRequestBody : BOOLEAN, LogResponseBody : BOOLEAN]

NoSpan == [started |-> 0, ended |-> 0, deferred |-> FALSE, status |-> 0]

NoHandler == [invoked |-> 0, saw |-> Unread, responded |-> FALSE, panicked |-> FALSE]

NoResult == [conn |-> "none", rw |-> "none", err |-> "none"]

\* --------------------------------------------------- pkg/itf: the Suite
\* bounds of the harness model
MaxHooks == 2
MaxExpects == 2
MaxAdds == 2
MaxHTMLCalls == 2

Nil == "nil"

Users == {"alice", "bob"}

\* context keys: those of the standard attachments and one of the caller's own
StandardKeys ==
  {"user", "pool", "session", "tenant", "app", "head", "logo", "logger", "page"}

CtxKeys == StandardKeys \cup {"custom"}

NoParams == [IP |-> "", UserAgent |-> "", Authenticated |-> FALSE, set |-> FALSE]

\* r.Context() of a request made by httptest.NewRequest: nothing attached
\* applied lists the caller's functions that were called on the way to this
\* context, in the order of the calls
Background ==
  [vals |-> [k \in CtxKeys |-> ""], params |-> NoParams, applied |-> <<>>]

\* context.WithValue(c, key, val) and the composables.WithX wrappers of it
WithValue(c, key, val) == [c EXCEPT !.vals[key] = val]

WithParams(c, params) == [c EXCEPT !.params = params]

\* a HookFunc or MiddlewareFunc of the caller: attaches one value under a key
\* of its choice, which may be a key the standard attachments use
HookFuncs == [key : {"user", "custom"}, val : {"from_hook"}]

MiddlewareFuncs == [key : {"user", "custom"}, val : {"from_mw"}]

RECURSIVE ApplyAll(_, _)
ApplyAll(fs, c) ==
  IF fs = <<>> THEN c
  ELSE ApplyAll(Tail(fs), [WithValue(c, Head(fs).key, Head(fs).val)
                             EXCEPT !.applied = Append(@, Head(fs))])

\* "for _, hook := range fs { ctx = hook(ctx) }": each function is given the
\* context the one before it returned
RangeApply_Unchained(fs, c) ==
  IF fs = <<>> THEN c ELSE ApplyAll(<<fs[Len(fs)]>>, c)

RangeApply(fs, c) == ApplyAll(fs, c)

\* NewSuite: no user override, the environment's default user, no hooks
NewSuite(envUser) ==
  [user |-> Nil, envUser |-> envUser, envCtxUser |-> "env",
   middlewares |-> <<>>, beforeEach |-> <<>>]

\* the user the harness middleware acts for
currentUser_SuiteOnly(s) == s.user

currentUser(s) == IF s.user # Nil THEN s.user ELSE s.envUser

\* the context the harness middleware hands to the next handler
setupMiddleware(s, c0) ==
  LET c1 == RangeApply(s.beforeEach, c0)
      cu == currentUser(s)
      c2 == IF cu # Nil THEN WithValue(c1, "user", cu) ELSE c1
      c3 == WithValue(c2, "pool", "env.Pool")
      c4 == WithValue(c3, "session", "empty_session")
      c5 == WithValue(c4, "tenant", "env.Tenant.ID")
      c6 == WithValue(c5, "app", "env.App")
      c7 == WithValue(c6, "head", "NopComponent")
      c8 == WithValue(c7, "logo", "NopComponent")
      c9 == WithValue(c8, "logger", "test_logger")
      c10 == WithParams(c9, [IP |-> "127.0.0.1", UserAgent |-> "test-agent",
                             Authenticated |-> cu # Nil, set |-> TRUE])
      c11 == WithValue(c10, "page", "en")
  IN RangeApply(s.middlewares, c11)

\* Suite.AsUser
AsUser(s, u) == [s EXCEPT !.user = u, !.envUser = u, !.envCtxUser = u]

\* Suite.WithMiddleware and Suite.BeforeEach
WithMiddleware(s, middleware) == [s EXCEPT !.middlewares = Append(@, middleware)]

BeforeEach(s, hook) == [s EXCEPT !.beforeEach = Append(@, hook)]

\* ------------------------------------------------- pkg/itf: the Request
Paths == {"/route-a", "/route-b"}

\* a Request not yet created, and Suite.newRequest; last is the record of the
\* latest body-encoding call made on the request: the method called, its
\* argument, and the method called before it
NoBuilder ==
  [method |-> "", path |-> "", contentType |-> "", body |-> <<>>,
   last |-> [kind |-> "absent", before |-> "absent"]]

newRequest(method, path) ==
  [method |-> method, path |-> path, contentType |-> "", body |-> <<>>,
   last |-> [kind |-> "none", before |-> "none"]]

\* json.Marshal of a Go string
JSONValues == {"", "hi"}

Marshal(v) == "\"" \o v \o "\""

\* url.Values over the modelled keys: the values of each key in order, <<>>
\* for a key that is absent
FieldKeys == {"a", "b"}

SortedKeys == <<"a", "b">>

NoValues == [k \in FieldKeys |-> <<>>]

Add(vs, key, value) == [vs EXCEPT ![key] = Append(@, value)]

KeysOf(vs) == {k \in FieldKeys : vs[k] # <<>>}

RECURSIVE AddAll(_, _, _)
AddAll(vs, key, values) ==
  IF values = <<>> THEN vs
  ELSE AddAll(Add(vs, key, Head(values)), key, Tail(values))

\* the pairs key=value of the keys in the given order
RECURSIVE Pairs(_, _)
Pairs(vs, order) ==
  IF order = <<>> THEN <<>>
  ELSE [i \in DOMAIN vs[Head(order)] |-> Head(order) \o "=" \o vs[Head(order)][i]]
       \o Pairs(vs, Tail(order))

RECURSIVE Join(_)
Join(ps) ==
  IF ps = <<>> THEN ""
  ELSE IF Len(ps) = 1 THEN ps[1]
  ELSE ps[1] \o "&" \o Join(Tail(ps))

\* url.Values.Encode: sorted by key
Encode(vs) == Join(Pairs(vs, SelectSeq(SortedKeys, LAMBDA k : k \in KeysOf(vs))))

FormValues ==
  {[a |-> <<"1">>, b |-> <<>>], [a |-> <<"1">>, b |-> <<"2">>]}

\* Request.JSON and Request.Form
JSON_Append(rq, v) ==
  [rq EXCEPT !.body = @ \o <<Marshal(v)>>, !.contentType = "application/json",
             !.last = [kind |-> "JSON", before |-> rq.last.kind, v |-> v]]

JSON(rq, v) ==
  [rq EXCEPT !.body = <<Marshal(v)>>, !.contentType = "application/json",
             !.last = [kind |-> "JSON", before |-> rq.last.kind, v |-> v]]

Form(rq, values) ==
  [rq EXCEPT !.body = <<Encode(values)>>,
             !.contentType = "application/x-www-form-urlencoded",
             !.last = [kind |-> "Form", before |-> rq.last.kind, values |-> values]]

\* MultipartData: NewMultipart, AddFile, AddField, AddForm; calls is the
\* record of the builder calls made on the value
MultipartFiles == {[FieldName |-> "doc", FileName |-> "x.txt", Content |-> "X"]}

NewMultipart == [files |-> <<>>, formValues |-> NoValues, calls |-> <<>>]

AddFile(m, file) ==
  [m EXCEPT !.files = Append(@, file), !.calls = Append(@, "AddFile")]

AddField(m, key, value) ==
  [m EXCEPT !.formValues = Add(@, key, value),
            !.calls = Append(@, "AddField " \o key \o "=" \o value)]

\* the range over the argument's keys adds each key's values in order; keys
\* do not interact, so the order of that range does not show in the result
AddForm(m, values) ==
  [m EXCEPT !.formValues = AddAll(AddAll(@, "a", values["a"]), "b", values["b"]),
            !.calls = Append(@, "AddForm " \o Encode(values))]

\* the arguments the builder calls are made with
AddFieldKeys == {"b"}

AddFormValues == {[a |-> <<"1">>, b |-> <<>>]}

\* the orders in which a range over a map with these keys may visit them
KeyOrders(keys) ==
  {o \in [1..Cardinality(keys) -> keys] : \A i, j \in DOMAIN o : i # j => o[i] # o[j]}

\* multipart.Writer: the boundary is random
Boundaries == {"b1", "b2"}

FormDataContentType(boundary) == "multipart/form-data; boundary=" \o boundary

RECURSIVE FileParts(_, _)
FileParts(files, boundary) ==
  IF files = <<>> THEN <<>>
  ELSE <<"--" \o boundary,
         "name=" \o Head(files).FieldName \o "; filename=" \o Head(files).FileName,
         Head(files).Content>>
       \o FileParts(Tail(files), boundary)

RECURSIVE FieldParts(_, _, _)
FieldParts(vs, order, boundary) ==
  IF order = <<>> THEN <<>>
  ELSE LET k == Head(order)
           one(v) == <<"--" \o boundary, "name=" \o k, v>>
           RECURSIVE all(_)
           all(values) == IF values = <<>> THEN <<>>
                          ELSE one(Head(values)) \o all(Tail(values))
       IN all(vs[k]) \o FieldParts(vs, Tail(order), boundary)

\* Request.MultipartData, for the order in which the range over
\* data.formValues visits the keys and the boundary the writer drew
MultipartData(rq, data, order, boundary) ==
  [rq EXCEPT !.body = FileParts(data.files, boundary)
                      \o FieldParts(data.formValues, order, boundary)
                      \o <<"--" \o boundary \o "--">>,
             !.contentType = FormDataContentType(boundary),
             !.last = [kind |-> "MultipartData", before |-> rq.last.kind,
                       data |-> data, boundary |-> boundary]]

\* Request.File
File(rq, file, boundary) ==
  [MultipartData(rq, AddFile(NewMultipart, file), <<>>, boundary)
     EXCEPT !.last.kind = "File"]

\* ------------------------------------- pkg/itf: Expect and the Response
\* httptest.NewRecorder, allocated in the list of recorders: <<index, list>>
FreshRecorder == [Code |-> 200, wroteHeader |-> FALSE, XRoute |-> "", Body |-> ""]

NewRecorder_Reused(recs) ==
  IF recs = <<>> THEN <<1, <<FreshRecorder>>>> ELSE <<1, recs>>

NewRecorder(recs) == <<Len(recs) + 1, Append(recs, FreshRecorder)>>

\* the two registered controllers: each sets a header, a status and a body
RouteCode(path) == IF path = "/route-a" THEN 200 ELSE 201

RouteBody(path) == IF path = "/route-a" THEN "A" ELSE "B"

ServeRoute(rec, path) ==
  [rec EXCEPT !.XRoute = path,
              !.Code = IF rec.wroteHeader THEN @ ELSE RouteCode(path),
              !.wroteHeader = TRUE,
              !.Body = @ \o RouteBody(path)]

\* the Response Expect returns: its recorder, the cached document (doc), how
\* often the body was parsed, how often HTML() was called, the document of
\* the HTML handle returned last, and the last query made with its result
NewResponse(recorder) ==
  [recorder |-> recorder, doc |-> "nil", parses |-> 0, htmlCalls |-> 0,
   html |-> "none", query |-> <<"none", "">>]

\* htmlquery.Parse of a body that is a fragment: the document built around it
Parse(body) == "<html><head></head><body>" \o body \o "</body></html>"

\* Response.HTML: parses the body unless a document is cached
HTML_AlwaysParse(resp, rec) ==
  [resp EXCEPT !.doc = Parse(rec.Body), !.parses = @ + 1, !.htmlCalls = @ + 1,
               !.html = Parse(rec.Body)]

HTML(resp, rec) ==
  IF resp.doc = "nil"
  THEN [resp EXCEPT !.doc = Parse(rec.Body), !.parses = @ + 1, !.htmlCalls = @ + 1,
                    !.html = Parse(rec.Body)]
  ELSE [resp EXCEPT !.htmlCalls = @ + 1, !.html = resp.doc]

\* the assertion and query methods of Response and of the HTML handle: what
\* each reads, as a string; the assertions compare it and return the Response
Queries ==
  {"Status", "RedirectTo", "Contains", "NotContains", "Body", "Header",
   "Element", "HasErrorFor"}

Query(method, resp, rec) ==
  CASE method = "Status" -> ToString(rec.Code)
    [] method = "RedirectTo" -> ""
    [] method = "Contains" -> IF rec.Body = "A" THEN "found" ELSE "missing"
    [] method = "NotContains" -> IF rec.Body = "A" THEN "found" ELSE "missing"
    [] method = "Body" -> rec.Body
    [] method = "Header" -> rec.XRoute
    [] method = "Element" -> resp.html
    [] OTHER -> "no error element"

\* last is the builder's record of the encoding call the request came from
NoSeen ==
  [path |-> "", method |-> "", contentType |-> "", body |-> <<>>,
   last |-> [kind |-> "absent", before |-> "absent"], ctx |-> Background]

\* the multipart body with the boundary string factored out
StripBoundary(body, boundary) ==
  [i \in DOMAIN body |->
     IF body[i] = "--" \o boundary THEN "--"
     ELSE IF body[i] = "--" \o boundary \o "--" THEN "----"
     ELSE body[i]]


SuiteIdle ==
  /\ suite = NewSuite(Nil)
  /\ asUser = "never"
  /\ request = NoBuilder
  /\ mdata = NewMultipart
  /\ recorders = <<>>
  /\ responses = <<>>
  /\ seen = NoSeen

\* ------------------------------------------------------ pkg/fp: Reduce
\* bounds of the fold model
MaxLen == 3
MaxInvocations == 2

Elements == {1, 2}

Accs == {0, 1}

\* the slices xs of at most MaxLen elements
Slices == UNION {[1..n -> Elements] : n \in 0..MaxLen}

\* callbacks, none of them commutative or associative, so that the order and
\* the nesting of the calls show in the result; i is the index of the
\* element, counted from 0, and xs the whole slice
Callbacks == {"horner", "minus"}

Apply(callback, acc, x) ==
  IF callback = "horner" THEN 3 * acc + x ELSE acc - 2 * x

ApplyWithIndex(callback, acc, x, i) ==
  IF callback = "horner" THEN 3 * acc + x + 5 * i ELSE acc - 2 * x - (i + 1) * acc

ApplyWithSlice(callback, acc, x, i, xs) ==
  IF callback = "horner" THEN 3 * acc + x + 5 * i + 7 * Len(xs)
  ELSE acc - 2 * x - (i + 1) * acc - Len(xs)

\* the range loop of the three functions from position n on: fn tells which
\* arguments the callback is passed
RECURSIVE RangeLoop(_, _, _, _, _)
RangeLoop(fn, callback, acc, xs, n) ==
  IF n > Len(xs) THEN acc
  ELSE LET next == CASE fn = "Reduce" -> Apply(callback, acc, xs[n])
                     [] fn = "ReduceWithIndex" ->
                          ApplyWithIndex(callback, acc, xs[n], n - 1)
                     [] OTHER -> ApplyWithSlice(callback, acc, xs[n], n - 1, xs)
       IN RangeLoop(fn, callback, next, xs, n + 1)

\* one invocation of the returned function on xs, acc being the captured
\* variable as it stands: the value returned, which is also stored in acc
Invoke_FromRight(fn, callback, acc, xs) ==
  RangeLoop(fn, callback, acc, [i \in DOMAIN xs |-> xs[Len(xs) + 1 - i]], 1)

Invoke(fn, callback, acc, xs) == RangeLoop(fn, callback, acc, xs, 1)

Functions == {"Reduce", "ReduceWithIndex", "ReduceWithSlice"}

\* fp.Reduce(callback, acc) and its two variants: the closure returned;
\* init is the acc it was made with, xs and result those of the last invocation
Reduce(fn, callback, acc) ==
  [fn |-> fn, callback |-> callback, acc |-> acc, init |-> acc,
   invocations |-> 0, xs |-> <<>>, result |-> acc]

NoReducer == Reduce("none", "none", 0)

ReduceIdle == reducer = NoReducer

\* ------------------------------- warehouse: the position repository
PositionIDs == {1, 2}

Titles == {"Position 1", "Updated Position 1"}

Barcodes == {"3141592653589", "2718281828459"}

\* position.New(title, barcode, position.WithID(id))
Positions == [id : PositionIDs, title : Titles, barcode : Barcodes]

NoRow == [present |-> FALSE, title |-> "", barcode |-> ""]

\* the repository's methods on the rows of the positions table, each giving
\* the rows afterwards and the error returned; the id is the primary key
Create(rows, p) ==
  IF rows[p.id].present THEN [rows |-> rows, err |-> "duplicate key"]
  ELSE [rows |-> [rows EXCEPT ![p.id] = [present |-> TRUE, title |-> p.title,
                                         barcode |-> p.barcode]],
        err |-> "nil"]

Update(rows, p) ==
  IF ~rows[p.id].present THEN [rows |-> rows, err |-> "ErrPositionNotFound"]
  ELSE [rows |-> [rows EXCEPT ![p.id] = [present |-> TRUE, title |-> p.title,
                                         barcode |-> p.barcode]],
        err |-> "nil"]

Delete_KeepsRow(rows, id) ==
  IF ~rows[id].present THEN [rows |-> rows, err |-> "ErrPositionNotFound"]
  ELSE [rows |-> rows, err |-> "nil"]

Delete(rows, id) ==
  IF ~rows[id].present THEN [rows |-> rows, err |-> "ErrPositionNotFound"]
  ELSE [rows |-> [rows EXCEPT ![id] = NoRow], err |-> "nil"]

GetByID(rows, id) ==
  IF rows[id].present
  THEN [id |-> id, title |-> rows[id].title, barcode |-> rows[id].barcode,
        err |-> "nil"]
  ELSE [id |-> id, title |-> "", barcode |-> "", err |-> "ErrPositionNotFound"]

\* no GetByID result at hand, and no successful call on an id yet
NoPosition == [id |-> 0, title |-> "", barcode |-> "", err |-> "none"]

NoCall == [op |-> "none", title |-> "", barcode |-> ""]

\* the repository over an empty table; ret is the result of a GetByID made
\* since the last change, last the latest successful call on each id
NewPositionRepository ==
  [rows |-> [id \in PositionIDs |-> NoRow], ret |-> NoPosition,
   last |-> [id \in PositionIDs |-> NoCall]]

RepoIdle == repo = NewPositionRepository

LibraryIdle == ReduceIdle /\ RepoIdle

\* ------------------------------------ WithLogger: concurrent requests
\* bound of the concurrent model
MaxWorkers == 2

Workers == 1..MaxWorkers

\* the logger, the tracer, the configuration and the options, which the
\* closure returned by WithLogger captures once for all requests
Process(o) ==
  [opts |-> o, conf |-> [RequestIDHeader |-> "X-Request-ID"],
   logger |-> "logger", tracer |-> "iota-sdk-middleware"]

\* the locals of a handler call: 0 is a nil reference
NoWorker ==
  [pc |-> "idle", r |-> NoRequest, requestID |-> "", fieldsLogger |-> 0,
   bodyBuf |-> 0, rBody |-> 0, ctx |-> 0, wrappedWriter |-> 0,
   saw |-> [body |-> Unread, requestID |-> ""], status |-> 0]

WorkersIdle ==
  /\ process = Process([LogRequestBody |-> TRUE, LogResponseBody |-> TRUE])
  /\ workers = [i \in Workers |-> NoWorker]
  /\ heap = <<>>

\* allocation of an object by a worker: <<reference, heap>>
Alloc(h, owner, kind, val) ==
  <<Len(h) + 1, Append(h, [owner |-> owner, kind |-> kind, val |-> val])>>

\* bodyBuf := &bytes.Buffer{} filled by io.Copy: <<reference, heap>>
NewBuffer_PackageLevel(h, owner, bytes) ==
  IF \E k \in DOMAIN h : h[k].kind = "buffer"
  THEN LET k == CHOOSE k \in DOMAIN h : h[k].kind = "buffer"
       IN <<k, [h EXCEPT ![k].val = bytes]>>
  ELSE Alloc(h, owner, "buffer", bytes)

NewBuffer(h, owner, bytes) == Alloc(h, owner, "buffer", bytes)

Init ==
  /\ opts \in LoggerOptions
  /\ nreq = 0
  /\ uuidSeq = 0
  /\ ids = <<>>
  /\ pc = "idle"
  /\ mw = "none"
  /\ r = NoRequest
  /\ rbody = BodyStream(NoRequest)
  /\ reads = {}
  /\ requestID = ""
  /\ w = NewSink([flusher |-> FALSE, hijacker |-> FALSE, reader |-> "none"])
  /\ ww = NoWriter
  /\ span = NoSpan
  /\ ctx = <<>>
  /\ handler = NoHandler
  /\ stages = <<>>
  /\ logs = <<>>
  /\ calls = <<>>
  /\ ret = NoResult
  /\ whHistory = <<>>
  /\ SuiteIdle
  /\ LibraryIdle
  /\ WorkersIdle

\* --------------------------------------------------------------- WithLogger
\* getRequestID: returns <<id, uuidSeq'>>
getRequestID(req, n) ==
  IF Len(req.id) > 0 THEN <<req.id, n>>
  ELSE <<"uuid-" \o ToString(n + 1), n + 1>>

\* the function returns: a deferred span.End() runs
Return(sp) == IF sp.deferred THEN [sp EXCEPT !.ended = sp.ended + 1] ELSE sp

ReturnStages(sp, st) == IF sp.deferred THEN Append(st, "span_end") ELSE st

\* A request arrives: requestID, fieldsLogger, "request started"
Serve ==
  /\ pc = "idle"
  /\ nreq < MaxRequests
  /\ \E req \in Requests, caps \in ServerSinks :
       LET rid == getRequestID(req, uuidSeq) IN
       /\ r' = req
       /\ rbody' = BodyStream(req)
       /\ w' = NewSink(caps)
       /\ requestID' = rid[1]
       /\ uuidSeq' = rid[2]
       /\ ids' = IF Len(req.id) > 0 THEN ids ELSE Append(ids, rid[1])
  /\ nreq' = nreq + 1
  /\ mw' = "WithLogger"
  /\ pc' = "body"
  /\ reads' = {}
  /\ ww' = NoWriter
  /\ span' = NoSpan
  /\ ctx' = <<>>
  /\ handler' = NoHandler
  /\ stages' = <<>>
  /\ logs' = <<"request started">>
  /\ whHistory' = <<>>
  /\ UNCHANGED <<opts, writerVars, componentVars>>

\* r.ParseForm(): the body is read only for POST, PUT and PATCH with the
\* form media type; returns the outcome and the stream left behind
ParseForm(req, st) ==
  IF req.method \in {"POST", "PUT", "PATCH"} /\ ~st.nil /\ IsFormMediaType(req.ct)
  THEN [ok |-> ParseQueryOK(st.rest), body |-> [st EXCEPT !.rest = ""]]
  ELSE [ok |-> TRUE, body |-> st]

\* r.Body = io.NopCloser(bytes.NewBuffer(bodyBuf.Bytes()))
ReplayBuffer_Drained(bytes) == [nil |-> FALSE, buffer |-> TRUE, rest |-> "", err |-> FALSE]

ReplayBuffer(bytes) == [nil |-> FALSE, buffer |-> TRUE, rest |-> bytes, err |-> FALSE]

\* the request-body switch; bytes is bodyBuf.Bytes(), buf is r.Body.  Yields
\* the outcome, the message logged and r.Body afterwards
ParseRequestBody_LogOnly(req, bytes, buf) ==
  [ok |-> TRUE, body |-> buf, fail |-> "", info |-> "request-body parsed"]

ParseRequestBody(req, bytes, buf) ==
  LET case == RequestBodyCaseOf[req.ct] IN
  IF case = "json" THEN
    [ok |-> JSONUnmarshalOK(bytes), body |-> buf,
     fail |-> "failed to parse JSON request-body",
     info |-> "JSON request-body parsed"]
  ELSE IF case = "form" THEN
    [ok |-> ParseForm(req, buf).ok, body |-> ParseForm(req, buf).body,
     fail |-> "failed to parse form-urlencoded request-body",
     info |-> "form-urlencoded request-body parsed"]
  ELSE IF case = "xml" THEN
    [ok |-> XMLUnmarshalOK(bytes), body |-> buf,
     fail |-> "failed to parse XML request-body",
     info |-> "XML request-body parsed"]
  ELSE
    [ok |-> TRUE, body |-> buf, fail |-> "", info |-> "request-body parsed"]

\* the request-body block of WithLogger
LogRequestBody ==
  /\ pc = "body"
  /\ mw = "WithLogger"
  /\ IF logReqBody(opts, r.ct) /\ ~rbody.nil THEN
       IF rbody.err THEN
         \* io.Copy failed
         /\ reads' = reads \cup {"middleware"}
         /\ rbody' = [rbody EXCEPT !.rest = ""]
         /\ logs' = Append(logs, "failed to read request-body")
         /\ w' = HttpError(w, "failed to read request-body", StatusInternalServerError)
         /\ span' = Return(span)
         /\ stages' = ReturnStages(span, stages)
         /\ pc' = "done"
       ELSE
         LET bytes == rbody.rest
             res == ParseRequestBody(r, bytes, ReplayBuffer(bytes))
         IN
         /\ reads' = reads \cup {"middleware"}
         /\ rbody' = res.body
         /\ IF res.ok THEN
              /\ logs' = Append(logs, res.info)
              /\ w' = w
              /\ span' = span
              /\ stages' = Append(stages, "body_buffered")
              /\ pc' = "next"
            ELSE
              /\ logs' = Append(logs, res.fail)
              /\ w' = HttpError(w, res.fail, StatusBadRequest)
              /\ span' = Return(span)
              /\ stages' = ReturnStages(span, Append(stages, "body_buffered"))
              /\ pc' = "done"
     ELSE
       /\ pc' = "next"
       /\ UNCHANGED <<reads, rbody, logs, w, span, stages>>
  /\ UNCHANGED <<opts, nreq, uuidSeq, ids, mw, r, requestID, ww, ctx, handler,
                 whHistory, writerVars, componentVars>>

\* the stages between the body block and the handler, in program order
PreHandlerStages_WrapFirst == <<"wrap", "span_start", "ctx_attached", "handler">>

PreHandlerStages == <<"span_start", "ctx_attached", "wrap", "handler">>

\* tracer.Start, defer span.End(), context values, response headers,
\* wrapResponseWriter, next.ServeHTTP is entered
InvokeNext ==
  /\ pc = "next"
  /\ mw = "WithLogger"
  /\ span' = [span EXCEPT !.started = span.started + 1, !.deferred = TRUE]
  /\ ctx' = ctx \o <<"span", "logger", "request-start">>
  /\ w' = [w EXCEPT !.header.xRequestId = requestID]
  /\ ww' = wrapResponseWriter
  /\ handler' = [handler EXCEPT !.invoked = handler.invoked + 1]
  /\ stages' = stages \o PreHandlerStages
  /\ pc' = "handler"
  /\ UNCHANGED <<opts, nreq, uuidSeq, ids, mw, r, rbody, reads, requestID, logs,
                 whHistory, writerVars, componentVars>>

\* ------------------------------------------------- the downstream handler
\* what a handler may answer: an explicit status (0: none), a Content-Type
\* and a body, or only a Content-Type header with nothing written
HandlerResponses ==
  [code : {0, 404}, ct : {"text/plain", "application/json", "text/xml"},
   body : {"{\"a\":1}", "<a/>"}, write : {TRUE}]
  \cup
  [code : {0}, ct : {"text/plain", "application/json", "text/xml"},
   body : {""}, write : {FALSE}]

\* the handler reads r.Body to its end
HandlerReadBody ==
  /\ pc = "handler"
  /\ handler.saw = Unread
  /\ handler' = [handler EXCEPT !.saw = IF rbody.nil THEN "" ELSE rbody.rest]
  /\ rbody' = [rbody EXCEPT !.rest = ""]
  /\ reads' = IF rbody.nil \/ rbody.buffer THEN reads ELSE reads \cup {"handler"}
  /\ UNCHANGED <<opts, nreq, uuidSeq, ids, pc, mw, r, requestID, w, ww, span, ctx,
                 stages, logs, whHistory, writerVars, componentVars>>

\* the handler answers through the wrapped writer
HandlerRespond ==
  /\ pc = "handler"
  /\ ~handler.responded
  /\ \E resp \in HandlerResponses :
       LET w1 == [w EXCEPT !.header.contentType = resp.ct]
           wh == IF resp.code = 0 THEN <<ww, w1>> ELSE WriteHeader(ww, w1, resp.code)
       IN
       /\ ww' = wh[1]
       /\ w' = IF resp.write THEN SinkWrite(wh[2], resp.body) ELSE wh[2]
       /\ whHistory' = IF resp.code = 0 THEN whHistory ELSE Append(whHistory, resp.code)
  /\ handler' = [handler EXCEPT !.responded = TRUE]
  /\ UNCHANGED <<opts, nreq, uuidSeq, ids, pc, mw, r, rbody, reads, requestID, span,
                 ctx, stages, logs, writerVars, componentVars>>

\* next.ServeHTTP panics: the deferred span.End() runs while unwinding
HandlerPanic ==
  /\ pc = "handler"
  /\ handler' = [handler EXCEPT !.panicked = TRUE]
  /\ span' = Return(span)
  /\ stages' = ReturnStages(span, stages)
  /\ pc' = "done"
  /\ UNCHANGED <<opts, nreq, uuidSeq, ids, mw, r, rbody, reads, requestID, w, ww,
                 ctx, logs, whHistory, writerVars, componentVars>>

\* the parse step of the response-body switch: the message logged
ParseResponseBody(contentType, body) ==
  LET case == ResponseBodyCaseOf[contentType] IN
  IF case = "json" THEN
    IF JSONUnmarshalOK(body) THEN "JSON response-body parsed"
    ELSE "failed to parse JSON response-body"
  ELSE IF case = "xml" THEN
    IF XMLUnmarshalOK(body) THEN "XML response-body parsed"
    ELSE "failed to parse XML response-body"
  ELSE "response-body parsed"

\* the response-body block of WithLogger: the sink afterwards, the messages
\* logged and the stages passed
LogResponseBody_ErrorToClient(o, s) ==
  LET respContentType == s.header.contentType
      logRespBody == o.LogResponseBody /\ shouldLogBodyOf[respContentType]
      msg == ParseResponseBody(respContentType, Flush(s).body)
  IN
  IF ~logRespBody THEN [w |-> s, logs |-> <<>>, stages |-> <<>>]
  ELSE IF s.caps.reader = "ok" THEN
    [w |-> IF msg \in {"failed to parse JSON response-body",
                       "failed to parse XML response-body"}
           THEN HttpError(Flush(s), msg, StatusInternalServerError)
           ELSE Flush(s),
     logs |-> <<msg>>, stages |-> <<"response_captured">>]
  ELSE IF s.caps.reader = "err" THEN
    [w |-> HttpError(Flush(s), "failed to read response-body", StatusInternalServerError),
     logs |-> <<"failed to read response-body">>, stages |-> <<>>]
  ELSE
    [w |-> Flush(s), logs |-> <<"underlying ResponseWriter does not implement io.Reader">>,
     stages |-> <<>>]

LogResponseBody(o, s) ==
  LET respContentType == s.header.contentType
      logRespBody == o.LogResponseBody /\ shouldLogBodyOf[respContentType]
  IN
  IF ~logRespBody THEN [w |-> s, logs |-> <<>>, stages |-> <<>>]
  ELSE IF s.caps.reader = "ok" THEN
    [w |-> Flush(s), logs |-> <<ParseResponseBody(respContentType, Flush(s).body)>>,
     stages |-> <<"response_captured">>]
  ELSE IF s.caps.reader = "err" THEN
    [w |-> Flush(s), logs |-> <<"failed to read response-body">>, stages |-> <<>>]
  ELSE
    [w |-> Flush(s), logs |-> <<"underlying ResponseWriter does not implement io.Reader">>,
     stages |-> <<>>]

\* the stages after the handler, in program order; rl is the outcome of the
\* response-body block
PostHandlerStages(rl) == <<"completion_log">> \o rl.stages

\* next.ServeHTTP returns: status code, "request completed", span attributes,
\* the response-body block, and the function returns
HandlerReturn ==
  /\ pc = "handler"
  /\ mw = "WithLogger"
  /\ LET rl == LogResponseBody(opts, w) IN
     /\ w' = rl.w
     /\ logs' = (logs \o <<"request completed">>) \o rl.logs
     /\ stages' = ReturnStages(span, stages \o PostHandlerStages(rl))
  /\ span' = Return([span EXCEPT !.status = Status(ww)])
  /\ pc' = "done"
  /\ UNCHANGED <<opts, nreq, uuidSeq, ids, mw, r, rbody, reads, requestID, ww, ctx,
                 handler, whHistory, writerVars, componentVars>>

\* --------------------------------------------------------- TracedMiddleware
\* a request arrives at TracedMiddleware: the span is started, its End is
\* deferred and next.ServeHTTP is entered with the writer as it is
TracedServe ==
  /\ pc = "idle"
  /\ nreq < MaxRequests
  /\ \E req \in Requests :
       /\ r' = req
       /\ rbody' = BodyStream(req)
  /\ nreq' = nreq + 1
  /\ mw' = "TracedMiddleware"
  /\ w' = NewSink([flusher |-> FALSE, hijacker |-> FALSE, reader |-> "none"])
  /\ requestID' = ""
  /\ reads' = {}
  /\ ww' = NoWriter
  /\ span' = [NoSpan EXCEPT !.started = 1, !.deferred = TRUE]
  /\ ctx' = <<"span">>
  /\ handler' = [NoHandler EXCEPT !.invoked = 1]
  /\ stages' = <<"span_start", "handler">>
  /\ logs' = <<>>
  /\ whHistory' = <<>>
  /\ pc' = "traced"
  /\ UNCHANGED <<opts, uuidSeq, ids, writerVars, componentVars>>

\* next.ServeHTTP returns or panics; either way the deferred span.End() runs
TracedReturn ==
  /\ pc = "traced"
  /\ \E panicked \in BOOLEAN : handler' = [handler EXCEPT !.panicked = panicked]
  /\ span' = Return(span)
  /\ stages' = ReturnStages(span, stages)
  /\ pc' = "done"
  /\ UNCHANGED <<opts, nreq, uuidSeq, ids, mw, r, rbody, reads, requestID, w, ww,
                 ctx, logs, whHistory, writerVars, componentVars>>

\* the server is done with the request; its request, writer and context are
\* dropped
Finish ==
  /\ pc = "done"
  /\ pc' = "idle"
  /\ mw' = "none"
  /\ r' = NoRequest
  /\ rbody' = BodyStream(NoRequest)
  /\ reads' = {}
  /\ requestID' = ""
  /\ w' = NewSink([flusher |-> FALSE, hijacker |-> FALSE, reader |-> "none"])
  /\ ww' = NoWriter
  /\ span' = NoSpan
  /\ ctx' = <<>>
  /\ handler' = NoHandler
  /\ stages' = <<>>
  /\ logs' = <<>>
  /\ whHistory' = <<>>
  /\ UNCHANGED <<opts, nreq, uuidSeq, ids, writerVars, componentVars>>

Next ==
  \/ Serve
  \/ LogRequestBody
  \/ InvokeNext
  \/ HandlerReadBody
  \/ HandlerRespond
  \/ HandlerReturn
  \/ HandlerPanic
  \/ TracedServe
  \/ TracedReturn
  \/ Finish

Spec == Init /\ [][Next]_vars

\* ------------------------------------- statusResponseWriter on its own
StatusCodes == {201, 404}

InitWriter ==
  /\ opts \in {[LogRequestBody |-> TRUE, LogResponseBody |-> TRUE]}
  /\ nreq = 0
  /\ uuidSeq = 0
  /\ ids = <<>>
  /\ pc = "writer"
  /\ mw = "none"
  /\ r = NoRequest
  /\ rbody = BodyStream(NoRequest)
  /\ reads = {}
  /\ requestID = ""
  /\ \E caps \in SinkCaps : w = NewSink(caps)
  /\ ww = wrapResponseWriter
  /\ span = NoSpan
  /\ ctx = <<>>
  /\ handler = NoHandler
  /\ stages = <<>>
  /\ logs = <<>>
  /\ calls = <<>>
  /\ ret = NoResult
  /\ whHistory = <<>>
  /\ SuiteIdle
  /\ LibraryIdle
  /\ WorkersIdle

middlewareVars == <<opts, nreq, uuidSeq, ids, pc, mw, r, rbody, reads, requestID,
                    span, ctx, handler, stages, logs, componentVars>>

CallWriteHeader ==
  /\ pc = "writer"
  /\ Len(calls) < MaxCalls
  /\ \E code \in StatusCodes :
       /\ ww' = WriteHeader(ww, w, code)[1]
       /\ w' = WriteHeader(ww, w, code)[2]
       /\ whHistory' = Append(whHistory, code)
  /\ calls' = Append(calls, "WriteHeader")
  /\ UNCHANGED <<middlewareVars, ret>>

\* Write is promoted from the embedded ResponseWriter
CallWrite ==
  /\ pc = "writer"
  /\ Len(calls) < MaxCalls
  /\ w' = SinkWrite(w, "x")
  /\ calls' = Append(calls, "Write")
  /\ UNCHANGED <<middlewareVars, ww, ret, whHistory>>

CallFlush ==
  /\ pc = "writer"
  /\ Len(calls) < MaxCalls
  /\ w' = Flush(w)
  /\ calls' = Append(calls, "Flush")
  /\ UNCHANGED <<middlewareVars, ww, ret, whHistory>>

CallHijack ==
  /\ pc = "writer"
  /\ Len(calls) < MaxCalls
  /\ ret' = Hijack(w)[1]
  /\ w' = Hijack(w)[2]
  /\ calls' = Append(calls, "Hijack")
  /\ UNCHANGED <<middlewareVars, ww, whHistory>>

NextWriter ==
  \/ CallWriteHeader
  \/ CallWrite
  \/ CallFlush
  \/ CallHijack

SpecWriter == InitWriter /\ [][NextWriter]_vars

\* ------------------------------------------------- the Suite on its own
\* the logging middleware at rest
RequestIdle ==
  /\ opts = [LogRequestBody |-> TRUE, LogResponseBody |-> TRUE]
  /\ nreq = 0
  /\ uuidSeq = 0
  /\ ids = <<>>
  /\ pc = "harness"
  /\ mw = "none"
  /\ r = NoRequest
  /\ rbody = BodyStream(NoRequest)
  /\ reads = {}
  /\ requestID = ""
  /\ w = NewSink([flusher |-> FALSE, hijacker |-> FALSE, reader |-> "none"])
  /\ ww = NoWriter
  /\ span = NoSpan
  /\ ctx = <<>>
  /\ handler = NoHandler
  /\ stages = <<>>
  /\ logs = <<>>
  /\ calls = <<>>
  /\ ret = NoResult
  /\ whHistory = <<>>

MiddlewareIdle == RequestIdle /\ WorkersIdle

InitSuite ==
  /\ MiddlewareIdle
  /\ LibraryIdle
  /\ \E envUser \in Users \cup {Nil} : suite = NewSuite(envUser)
  /\ asUser = "never"
  /\ request = NoBuilder
  /\ mdata = NewMultipart
  /\ recorders = <<>>
  /\ responses = <<>>
  /\ seen = NoSeen

CallAsUser ==
  /\ \E u \in Users \cup {Nil} :
       /\ suite' = AsUser(suite, u)
       /\ asUser' = u
  /\ UNCHANGED <<serverVars, libraryVars, request, mdata, recorders, responses, seen>>

CallBeforeEach ==
  /\ Len(suite.beforeEach) + Len(suite.middlewares) < MaxHooks
  /\ \E hook \in HookFuncs : suite' = BeforeEach(suite, hook)
  /\ UNCHANGED <<serverVars, libraryVars, asUser, request, mdata, recorders, responses, seen>>

CallWithMiddleware ==
  /\ Len(suite.beforeEach) + Len(suite.middlewares) < MaxHooks
  /\ \E middleware \in MiddlewareFuncs : suite' = WithMiddleware(suite, middleware)
  /\ UNCHANGED <<serverVars, libraryVars, asUser, request, mdata, recorders, responses, seen>>

\* Suite.GET, Suite.POST
CallNewRequest ==
  /\ \E method \in Methods, path \in Paths : request' = newRequest(method, path)
  /\ UNCHANGED <<serverVars, libraryVars, suite, asUser, mdata, recorders, responses, seen>>

\* Request.Expect: a new httptest request with the builder's headers and
\* body, a recorder, and the router's dispatch through the harness middleware
\* to the controller of the path
Expect ==
  /\ request.last.kind # "absent"
  /\ Len(responses) < MaxExpects
  /\ LET nr == NewRecorder(recorders)
         recorder == nr[1]
     IN /\ recorders' = [nr[2] EXCEPT ![recorder] = ServeRoute(@, request.path)]
        /\ responses' = Append(responses, NewResponse(recorder))
        /\ seen' = [path |-> request.path, method |-> request.method,
                    contentType |-> request.contentType, body |-> request.body,
                    last |-> request.last,
                    ctx |-> setupMiddleware(suite, Background)]
  /\ UNCHANGED <<serverVars, libraryVars, suite, asUser, request, mdata>>

NextSuite ==
  \/ CallAsUser
  \/ CallBeforeEach
  \/ CallWithMiddleware
  \/ CallNewRequest
  \/ Expect

SpecSuite == InitSuite /\ [][NextSuite]_vars

\* ---------------------------------------------- the Response on its own
InitResponse ==
  /\ MiddlewareIdle
  /\ LibraryIdle
  /\ suite = NewSuite("alice")
  /\ asUser = "never"
  /\ \E path \in Paths : request = newRequest("GET", path)
  /\ mdata = NewMultipart
  /\ recorders = <<>>
  /\ responses = <<>>
  /\ seen = NoSeen

CallHTML ==
  /\ \E i \in DOMAIN responses :
       /\ responses[i].htmlCalls < MaxHTMLCalls
       /\ responses' = [responses EXCEPT
                          ![i] = HTML(@, recorders[responses[i].recorder])]
  /\ UNCHANGED <<serverVars, libraryVars, suite, asUser, request, mdata, recorders, seen>>

\* Element and HasErrorFor are methods of the handle HTML() returned
CallQuery ==
  /\ \E i \in DOMAIN responses, method \in Queries :
       /\ method \in {"Element", "HasErrorFor"} => responses[i].html # "none"
       /\ responses' = [responses EXCEPT
                          ![i].query = <<method, Query(method, responses[i],
                                                       recorders[responses[i].recorder])>>]
  /\ UNCHANGED <<serverVars, libraryVars, suite, asUser, request, mdata, recorders, seen>>

NextResponse ==
  \/ Expect
  \/ CallHTML
  \/ CallQuery

SpecResponse == InitResponse /\ [][NextResponse]_vars

\* ----------------------------------------------- the Request on its own
InitRequest ==
  /\ MiddlewareIdle
  /\ LibraryIdle
  /\ suite = NewSuite("alice")
  /\ asUser = "never"
  /\ request = newRequest("POST", "/route-a")
  /\ mdata \in {AddFile(NewMultipart, file) : file \in MultipartFiles}
               \cup {AddField(AddForm(NewMultipart, values), key, "1") :
                       values \in AddFormValues, key \in AddFieldKeys}
  /\ recorders = <<>>
  /\ responses = <<>>
  /\ seen = NoSeen

CallJSON ==
  /\ \E v \in JSONValues : request' = JSON(request, v)
  /\ UNCHANGED <<serverVars, libraryVars, suite, asUser, mdata, recorders, responses, seen>>

CallForm ==
  /\ \E values \in FormValues : request' = Form(request, values)
  /\ UNCHANGED <<serverVars, libraryVars, suite, asUser, mdata, recorders, responses, seen>>

CallMultipartData ==
  /\ \E order \in KeyOrders(KeysOf(mdata.formValues)), boundary \in Boundaries :
       request' = MultipartData(request, mdata, order, boundary)
  /\ UNCHANGED <<serverVars, libraryVars, suite, asUser, mdata, recorders, responses, seen>>

CallFile ==
  /\ \E file \in MultipartFiles, boundary \in Boundaries :
       request' = File(request, file, boundary)
  /\ UNCHANGED <<serverVars, libraryVars, suite, asUser, mdata, recorders, responses, seen>>

NextRequest ==
  \/ CallJSON
  \/ CallForm
  \/ CallMultipartData
  \/ CallFile
  \/ Expect

SpecRequest == InitRequest /\ [][NextRequest]_vars

\* ----------------------------------------- the MultipartData on its own
InitMultipart ==
  /\ MiddlewareIdle
  /\ LibraryIdle
  /\ suite = NewSuite("alice")
  /\ asUser = "never"
  /\ request = newRequest("POST", "/route-a")
  /\ mdata = NewMultipart
  /\ recorders = <<>>
  /\ responses = <<>>
  /\ seen = NoSeen

CallNewMultipart ==
  /\ mdata' = NewMultipart
  /\ UNCHANGED <<serverVars, libraryVars, suite, asUser, request, recorders, responses, seen>>

CallAddFile ==
  /\ Len(mdata.calls) < MaxAdds
  /\ \E file \in MultipartFiles : mdata' = AddFile(mdata, file)
  /\ UNCHANGED <<serverVars, libraryVars, suite, asUser, request, recorders, responses, seen>>

CallAddField ==
  /\ Len(mdata.calls) < MaxAdds
  /\ \E key \in AddFieldKeys : mdata' = AddField(mdata, key, "1")
  /\ UNCHANGED <<serverVars, libraryVars, suite, asUser, request, recorders, responses, seen>>

CallAddForm ==
  /\ Len(mdata.calls) < MaxAdds
  /\ \E values \in AddFormValues : mdata' = AddForm(mdata, values)
  /\ UNCHANGED <<serverVars, libraryVars, suite, asUser, request, recorders, responses, seen>>

NextMultipart ==
  \/ CallNewMultipart
  \/ CallAddFile
  \/ CallAddField
  \/ CallAddForm
  \/ CallMultipartData

SpecMultipart == InitMultipart /\ [][NextMultipart]_vars

\* ------------------------------------------------- fp.Reduce on its own
InitReduce ==
  /\ MiddlewareIdle
  /\ SuiteIdle
  /\ RepoIdle
  /\ \E fn \in Functions, callback \in Callbacks, acc \in Accs :
       reducer = Reduce(fn, callback, acc)

\* the returned function is called on a slice
CallReducer ==
  /\ reducer.invocations < MaxInvocations
  /\ \E xs \in Slices :
       LET result == Invoke(reducer.fn, reducer.callback, reducer.acc, xs)
       IN reducer' = [reducer EXCEPT !.acc = result, !.result = result, !.xs = xs,
                                     !.invocations = @ + 1]
  /\ UNCHANGED <<serverVars, suiteVars, repo>>

NextReduce == CallReducer

SpecReduce == InitReduce /\ [][NextReduce]_vars

\* ------------------------------------- the position repository on its own
InitRepo ==
  /\ MiddlewareIdle
  /\ SuiteIdle
  /\ ReduceIdle
  /\ repo = NewPositionRepository

\* a call that returns an error leaves the table as it was
CallCreate ==
  /\ \E p \in Positions :
       LET res == Create(repo.rows, p)
       IN repo' = [rows |-> res.rows, ret |-> NoPosition,
                   last |-> IF res.err = "nil"
                            THEN [repo.last EXCEPT ![p.id] =
                                    [op |-> "Create", title |-> p.title,
                                     barcode |-> p.barcode]]
                            ELSE repo.last]
  /\ UNCHANGED <<serverVars, suiteVars, reducer>>

CallUpdate ==
  /\ \E p \in Positions :
       LET res == Update(repo.rows, p)
       IN repo' = [rows |-> res.rows, ret |-> NoPosition,
                   last |-> IF res.err = "nil"
                            THEN [repo.last EXCEPT ![p.id] =
                                    [op |-> "Update", title |-> p.title,
                                     barcode |-> p.barcode]]
                            ELSE repo.last]
  /\ UNCHANGED <<serverVars, suiteVars, reducer>>

CallDelete ==
  /\ \E id \in PositionIDs :
       LET res == Delete(repo.rows, id)
       IN repo' = [rows |-> res.rows, ret |-> NoPosition,
                   last |-> IF res.err = "nil"
                            THEN [repo.last EXCEPT ![id] =
                                    [op |-> "Delete", title |-> "", barcode |-> ""]]
                            ELSE repo.last]
  /\ UNCHANGED <<serverVars, suiteVars, reducer>>

CallGetByID ==
  /\ \E id \in PositionIDs : repo' = [repo EXCEPT !.ret = GetByID(repo.rows, id)]
  /\ UNCHANGED <<serverVars, suiteVars, reducer>>

NextRepo ==
  \/ CallCreate
  \/ CallUpdate
  \/ CallDelete
  \/ CallGetByID

SpecRepo == InitRepo /\ [][NextRepo]_vars

\* ------------------------------------ WithLogger under concurrent load
\* the request worker i is handed: its payload names the worker, so that
\* bytes of one request showing up in another are seen
WorkerRequests(i) ==
  {[id |-> id, ct |-> ct, method |-> "POST", hasBody |-> TRUE,
    body |-> "{\"a\":" \o ToString(i) \o "}", readErr |-> FALSE] :
     id \in {"", "client-" \o ToString(i)}, ct \in {"application/json", "text/plain"}}

InitWorkers ==
  /\ RequestIdle
  /\ SuiteIdle
  /\ LibraryIdle
  /\ \E o \in {[LogRequestBody |-> TRUE, LogResponseBody |-> TRUE],
               [LogRequestBody |-> FALSE, LogResponseBody |-> FALSE]} :
       process = Process(o)
  /\ workers = [i \in Workers |-> NoWorker]
  /\ heap = <<>>

\* the server hands a request to worker i
Accept(i) ==
  /\ workers[i].pc = "idle"
  /\ \E req \in WorkerRequests(i) :
       workers' = [workers EXCEPT ![i].pc = "accepted", ![i].r = req]
  /\ UNCHANGED <<opts, nreq, uuidSeq, ids, pc, mw, r, rbody, reads, requestID, w, ww,
                 span, ctx, handler, stages, logs, calls, ret, whHistory,
                 suiteVars, libraryVars, process, heap>>

\* requestID, fieldsLogger and the request-body block: the body is copied
\* into a buffer of the call and r.Body replaced by a reader over it
StartAndBuffer(i) ==
  /\ workers[i].pc = "accepted"
  /\ LET me == workers[i]
         id == getRequestID(me.r, i - 1)[1]
         entry == Alloc(heap, i, "entry", id)
         buf == IF logReqBody(process.opts, me.r.ct)
                THEN NewBuffer(entry[2], i, me.r.body)
                ELSE <<0, entry[2]>>
     IN /\ workers' = [workers EXCEPT ![i].pc = "buffered", ![i].requestID = id,
                                      ![i].fieldsLogger = entry[1],
                                      ![i].bodyBuf = buf[1], ![i].rBody = buf[1]]
        /\ heap' = buf[2]
  /\ UNCHANGED <<opts, nreq, uuidSeq, ids, pc, mw, r, rbody, reads, requestID, w, ww,
                 span, ctx, handler, stages, logs, calls, ret, whHistory,
                 suiteVars, libraryVars, process>>

\* the context with the field logger attached, and the wrapped writer
AttachAndWrap(i) ==
  /\ workers[i].pc = "buffered"
  /\ LET c == Alloc(heap, i, "ctx", workers[i].fieldsLogger)
         sw == Alloc(c[2], i, "writer", wrapResponseWriter)
     IN /\ workers' = [workers EXCEPT ![i].pc = "handler", ![i].ctx = c[1],
                                      ![i].wrappedWriter = sw[1]]
        /\ heap' = sw[2]
  /\ UNCHANGED <<opts, nreq, uuidSeq, ids, pc, mw, r, rbody, reads, requestID, w, ww,
                 span, ctx, handler, stages, logs, calls, ret, whHistory,
                 suiteVars, libraryVars, process>>

\* next.ServeHTTP: the handler reads r.Body, takes the logger from the
\* context and writes a status through the wrapped writer
Handle(i) ==
  /\ workers[i].pc = "handler"
  /\ LET me == workers[i]
         body == IF me.rBody = 0 THEN me.r.body ELSE heap[me.rBody].val
         code == IF me.r.ct = "application/json" THEN 201 ELSE 404
     IN /\ workers' = [workers EXCEPT ![i].pc = "handled",
                                      ![i].saw = [body |-> body,
                                                  requestID |-> heap[heap[me.ctx].val].val]]
        /\ heap' = [heap EXCEPT ![me.wrappedWriter].val.statusCode = code]
  /\ UNCHANGED <<opts, nreq, uuidSeq, ids, pc, mw, r, rbody, reads, requestID, w, ww,
                 span, ctx, handler, stages, logs, calls, ret, whHistory,
                 suiteVars, libraryVars, process>>

\* the completion log: the status is read from the wrapped writer
Complete(i) ==
  /\ workers[i].pc = "handled"
  /\ workers' = [workers EXCEPT ![i].pc = "done",
                                ![i].status = Status(heap[workers[i].wrappedWriter].val)]
  /\ UNCHANGED <<opts, nreq, uuidSeq, ids, pc, mw, r, rbody, reads, requestID, w, ww,
                 span, ctx, handler, stages, logs, calls, ret, whHistory,
                 suiteVars, libraryVars, process, heap>>

NextWorkers ==
  \/ \E i \in Workers : Accept(i)
  \/ \E i \in Workers : StartAndBuffer(i)
  \/ \E i \in Workers : AttachAndWrap(i)
  \/ \E i \in Workers : Handle(i)
  \/ \E i \in Workers : Complete(i)

SpecWorkers == InitWorkers /\ [][NextWorkers]_vars

\* ------------------------------------------------------------ properties
\* the headers the client receives: those sent with the status line, or the
\* header map as it stands if nothing was sent yet
ResponseHeader == IF w.wroteHeader THEN w.sent ELSE w.header

InWithLogger == mw = "WithLogger" /\ pc # "idle"

\* the connection delivered the whole body to whoever read it
Delivered == r.hasBody /\ ~r.readErr

\* the modelled content types that contain "application/json" as written
JSONRequest == r.ct \in {"application/json", "application/json; charset=utf-8"}

\* the modelled content types on the allow-list, in any letter case
AllowListed ==
  r.ct \in {"application/json", "Application/JSON", "application/json; charset=utf-8",
            "application/x-www-form-urlencoded", "application/xml", "text/xml"}

\* C1: with LogRequestBody enabled, a request whose Content-Type contains
\* application/json and whose body is delivered and is not valid JSON is
\* answered 400 "failed to parse JSON request-body\n" and never reaches the
\* downstream handler.
C1_MalformedJSONRejected ==
  (InWithLogger /\ opts.LogRequestBody /\ JSONRequest /\ Delivered
     /\ ~JSONUnmarshalOK(r.body))
  => /\ handler.invoked = 0
     /\ pc = "done" =>
          /\ w.status = StatusBadRequest
          /\ w.body = "failed to parse JSON request-body\n"

C1_Witness ==
  /\ InWithLogger /\ pc = "done" /\ opts.LogRequestBody
  /\ r.ct = "application/json" /\ r.body = "not-json" /\ Delivered
  /\ w.status = StatusBadRequest /\ handler.invoked = 0

\* C2: a request with Content-Type application/json and a valid JSON body
\* reaches the downstream handler, and reading r.Body there from start to end
\* yields exactly the original bytes.
C2_ValidJSONBodyIntact ==
  (InWithLogger /\ JSONRequest /\ Delivered /\ JSONUnmarshalOK(r.body))
  => /\ pc = "done" => handler.invoked = 1
     /\ (pc = "handler" /\ handler.saw = Unread) => rbody.rest = r.body
     /\ handler.saw # Unread => handler.saw = r.body

C2_Witness ==
  /\ InWithLogger /\ pc = "done" /\ opts.LogRequestBody
  /\ r.ct = "application/json" /\ JSONUnmarshalOK(r.body) /\ Delivered
  /\ "middleware" \in reads
  /\ handler.invoked = 1 /\ handler.saw = r.body

\* C3 (as claimed): whenever the logger has read and parsed the body of an
\* allow-listed request, the handler is entered with an unconsumed body stream
\* equal to the original bytes, also for a form-urlencoded POST.
C3_LoggedBodyUnconsumed ==
  (InWithLogger /\ "middleware" \in reads /\ handler.invoked = 1 /\ handler.saw # Unread)
  => handler.saw = r.body

\* C4 (as claimed): a request without a request-id header leaves the
\* middleware, on every exit path, with X-Request-Id set to a newly generated
\* id, and no two requests get the same generated id.
C4_RequestIdOnEveryExit ==
  /\ (InWithLogger /\ pc = "done" /\ r.id = "")
       => /\ ResponseHeader.xRequestId = requestID
          /\ Len(ids) > 0 /\ requestID = ids[Len(ids)]
  /\ \A i, j \in DOMAIN ids : i # j => ids[i] # ids[j]

\* C7 (as claimed): every request gets a span that is opened and closed
\* exactly once by the time the middleware returns, on every exit path.
C7_SpanOpenedAndClosedOnce ==
  pc = "done" => (span.started = 1 /\ span.ended = 1)

\* the stages happened in the order given by rank: along the history of the
\* request the rank grows strictly, except between stages of the rank last
Ordered(rank, last) ==
  \A i \in 1..(Len(stages) - 1) :
    \/ rank[stages[i]] < rank[stages[i + 1]]
    \/ rank[stages[i]] = last /\ rank[stages[i + 1]] = last

C9_UnlistedBodyUntouched ==
  (InWithLogger /\ ~AllowListed)
  => /\ "middleware" \notin reads
     /\ w.status \notin {StatusBadRequest, StatusInternalServerError}
     /\ pc = "done" => handler.invoked = 1
     /\ (pc = "handler" /\ handler.saw = Unread) => rbody = BodyStream(r)
     /\ handler.saw # Unread => handler.saw = r.body

C9_Witness ==
  /\ InWithLogger /\ pc = "done" /\ opts.LogRequestBody
  /\ r.ct = "text/plain" /\ r.body = "not-json" /\ Delivered
  /\ handler.invoked = 1 /\ handler.saw = r.body /\ reads = {"handler"}

\* C10 (as claimed): a transport error while reading an allow-listed body
\* gives 500 with body "failed to read request-body", no handler, no 400.
C10_ReadFailureAsClaimed ==
  (InWithLogger /\ pc = "done" /\ r.readErr /\ "middleware" \in reads)
  => /\ w.status = StatusInternalServerError
     /\ w.body = "failed to read request-body"
     /\ handler.invoked = 0

\* C10 (amended): a transport error while reading an allow-listed body gives
\* 500 with body "failed to read request-body\n" (http.Error ends the message
\* with a newline), the handler is not invoked and no 400 is produced.
C10_ReadFailure ==
  (InWithLogger /\ opts.LogRequestBody /\ AllowListed /\ r.readErr)
  => /\ handler.invoked = 0
     /\ w.status # StatusBadRequest
     /\ pc = "done" =>
          /\ w.status = StatusInternalServerError
          /\ w.body = "failed to read request-body\n"

C10_Witness ==
  /\ InWithLogger /\ pc = "done" /\ r.readErr /\ "middleware" \in reads
  /\ w.status = StatusInternalServerError /\ handler.invoked = 0

\* number of calls of one kind made on the wrapper
CountCalls(op) == Cardinality({i \in DOMAIN calls : calls[i] = op})

\* C5: Status() is 200 while WriteHeader was never called and otherwise the
\* code of the most recent WriteHeader call, whatever Write and Flush calls
\* came in between; every WriteHeader call reaches the underlying writer with
\* its code already stored in the wrapper.
C5_StatusIsLastWriteHeader ==
  pc = "writer" =>
    /\ Status(ww) = IF whHistory = <<>> THEN StatusOK ELSE whHistory[Len(whHistory)]
    /\ Len(w.log) = Len(whHistory)
    /\ \A i \in DOMAIN w.log :
         w.log[i].code = whHistory[i] /\ w.log[i].cached = whHistory[i]

C5_Witness ==
  /\ pc = "writer" /\ Len(whHistory) = 2 /\ whHistory[1] # whHistory[2]
  /\ calls[2] = "Write" /\ Status(ww) = whHistory[2] /\ w.status = whHistory[1]

\* C6: on a sink without the capability Flush changes nothing and Hijack
\* returns nil, nil and an error; on a sink with the capability each call is
\* passed to the sink exactly once and Hijack returns what the sink returned.
C6_CapabilityPassthrough ==
  [][(pc = "writer" /\ Len(calls') = Len(calls) + 1) =>
       /\ calls'[Len(calls')] = "Flush" =>
            IF w.caps.flusher
            THEN w'.flushes = w.flushes + 1 /\ w'.hijacks = w.hijacks
            ELSE w' = w
       /\ calls'[Len(calls')] = "Hijack" =>
            IF w.caps.hijacker
            THEN ret' = SinkConn /\ w'.hijacks = w.hijacks + 1 /\ w'.flushes = w.flushes
            ELSE ret'.conn = "nil" /\ ret'.rw = "nil" /\ ret'.err # "nil" /\ w' = w]_vars

C6_Witness ==
  /\ pc = "writer" /\ ~w.caps.hijacker /\ ~w.caps.flusher
  /\ CountCalls("Flush") > 0 /\ calls[Len(calls)] = "Hijack"
  /\ ret.err # "nil" /\ w.flushes = 0 /\ w.hijacks = 0

\* what the client is sent: the status line and headers committed by the
\* first WriteHeader, or else the 200 and the header map the server commits
\* when the handler chain returns
ClientStatus(s) == IF s.wroteHeader THEN s.status ELSE StatusOK

ClientHeader(s) == IF s.wroteHeader THEN s.sent ELSE s.header

ResponseLogFailures ==
  {"underlying ResponseWriter does not implement io.Reader",
   "failed to read response-body",
   "failed to parse JSON response-body",
   "failed to parse XML response-body"}

\* C11: the part of WithLogger that runs after the handler returned, whatever
\* failure the response-logging path meets (sink not readable, read error,
\* JSON or XML parse error), leaves the status, the headers and the body of
\* the response as the handler produced them and forwards no WriteHeader.
C11_ResponseLoggingLeavesResponse ==
  [][(mw = "WithLogger" /\ pc = "handler" /\ pc' = "done" /\ ~handler'.panicked)
       => /\ ClientStatus(w') = ClientStatus(w)
          /\ ClientHeader(w') = ClientHeader(w)
          /\ w'.body = w.body
          /\ w'.log = w.log]_vars

C11_Witness ==
  /\ InWithLogger /\ pc = "done" /\ ~handler.panicked
  /\ logs[Len(logs)] = "failed to parse JSON response-body"
  /\ w.flushes = 1 /\ w.status = 404 /\ w.body = "<a/>"
  /\ w.sent.contentType = "application/json"

\* the modelled content types that contain "application/xml" or "text/xml"
XMLRequest == r.ct \in {"application/xml", "text/xml"}

\* the modelled bodies that are well-formed XML documents: one root element
\* and nothing but white space after it
XMLWellFormed(b) == b \in {"<a/>"}

\* C12: with LogRequestBody enabled, a request with Content-Type
\* application/xml or text/xml whose body is delivered is answered 400
\* "failed to parse XML request-body" without reaching the handler if and only
\* if the body is not well-formed XML; a well-formed body reaches the handler.
C12_XMLRejectedIffMalformed ==
  (InWithLogger /\ pc = "done" /\ opts.LogRequestBody /\ XMLRequest /\ Delivered)
  => /\ (w.status = StatusBadRequest /\ handler.invoked = 0
           /\ w.body = "failed to parse XML request-body\n")
        <=> ~XMLWellFormed(r.body)
     /\ handler.invoked = 1 <=> XMLWellFormed(r.body)

\* the body and Content-Type that the encoding call enc alone produces
Encodes(enc, contentType, body) ==
  CASE enc.kind = "JSON" ->
         contentType = "application/json" /\ body = <<Marshal(enc.v)>>
    [] enc.kind = "Form" ->
         /\ contentType = "application/x-www-form-urlencoded"
         /\ body = <<Encode(enc.values)>>
    [] enc.kind \in {"MultipartData", "File"} ->
         /\ contentType = FormDataContentType(enc.boundary)
         /\ \E order \in KeyOrders(KeysOf(enc.data.formValues)) :
              body = FileParts(enc.data.files, enc.boundary)
                     \o FieldParts(enc.data.formValues, order, enc.boundary)
                     \o <<"--" \o enc.boundary \o "--">>
    [] OTHER -> contentType = "" /\ body = <<>>

\* C13: after any sequence of JSON, Form, MultipartData and File calls on a
\* Request, the stored body and Content-Type, and the body and Content-Type
\* Expect dispatches, are exactly those the last such call produces.
C13_LastWriterWins ==
  /\ Encodes(request.last, request.contentType, request.body)
  /\ Encodes(seen.last, seen.contentType, seen.body)

C13_Witness ==
  /\ seen.last.kind = "JSON" /\ seen.last.before = "MultipartData"
  /\ seen.body = <<"\"hi\"">> /\ seen.contentType = "application/json"
  /\ request.last.kind = "Form" /\ request.last.before = "JSON"
  /\ request.body = <<"a=1&b=2">>

\* C15: two Request.MultipartData calls in a row with MultipartData values
\* built by the same sequence of AddFile/AddField/AddForm calls produce the
\* same body once the boundary string is factored out.
C15_MultipartDeterministic ==
  [][(/\ request.last.kind = "MultipartData"
      /\ request'.last.kind = "MultipartData"
      /\ request'.last.data.calls = request.last.data.calls)
       => StripBoundary(request'.body, request'.last.boundary)
            = StripBoundary(request.body, request.last.boundary)]_vars

\* a step of Request.Expect
Dispatched == Len(responses') = Len(responses) + 1

\* the hooks and custom middleware functions registered on the suite
Registered ==
  {suite.beforeEach[i] : i \in DOMAIN suite.beforeEach}
    \cup {suite.middlewares[i] : i \in DOMAIN suite.middlewares}

\* C14: every BeforeEach hook and every custom middleware runs after the
\* standard attachments, so for every key a hook or a custom middleware sets,
\* the handler sees a value set by one of them, also under a key that a
\* standard attachment uses.
C14_HooksRunAfterStandard ==
  [][Dispatched =>
       \A f \in Registered : seen'.ctx.vals[f.key] \in {"from_hook", "from_mw"}]_vars

\* the user the suite is to act for: the argument of the most recent AsUser
\* call, or the environment's default user before any such call
ExpectedUser == IF asUser = "never" THEN suite.envUser ELSE asUser

\* C20: the user the standard attachments attach to a dispatched request is
\* the argument of the most recent AsUser call, or the environment's default
\* user if there was none (a nil user attaches nothing), and
\* Params.Authenticated is true exactly when that user is non-nil. The user
\* key is observed in suites whose custom middleware does not set it again.
C20_MostRecentAsUser ==
  [][Dispatched =>
       /\ seen'.ctx.params.set
       /\ seen'.ctx.params.Authenticated <=> ExpectedUser # Nil
       /\ (\A i \in DOMAIN suite.middlewares : suite.middlewares[i].key # "user")
            => seen'.ctx.vals["user"] =
                 IF ExpectedUser # Nil THEN ExpectedUser
                 ELSE ApplyAll(suite.beforeEach, Background).vals["user"]]_vars

C20_Witness ==
  /\ asUser = "bob" /\ suite.envUser = "bob" /\ Len(responses) = 2
  /\ seen.ctx.vals["user"] = "bob" /\ seen.ctx.params.Authenticated
  /\ suite.beforeEach # <<>> /\ suite.beforeEach[1].key = "user"

\* C16: every Expect dispatches against a recorder of its own: what the
\* Response handles returned earlier show is not changed by the dispatch, and
\* the new handle shows only what the controller of its own path wrote.
C16_FreshRecorderPerExpect ==
  [][Dispatched =>
       /\ \A i \in DOMAIN responses :
            /\ responses'[i] = responses[i]
            /\ recorders'[responses[i].recorder] = recorders[responses[i].recorder]
       /\ LET rec == recorders'[responses'[Len(responses')].recorder]
          IN /\ rec.Code = RouteCode(request.path)
             /\ rec.XRoute = request.path
             /\ rec.Body = RouteBody(request.path)]_vars

C16_Witness ==
  /\ Len(responses) = 2
  /\ responses[1].recorder # responses[2].recorder
  /\ recorders[responses[1].recorder].Body = "A"
  /\ recorders[responses[2].recorder].Body = "B"
  /\ recorders[responses[2].recorder].Code = 201

\* the nested application callback(...callback(callback(acc, xs[1]), xs[2])...,
\* xs[n]) of the first n elements, written from the outermost call inwards
RECURSIVE LeftFold(_, _, _, _, _)
LeftFold(fn, callback, acc, xs, n) ==
  IF n = 0 THEN acc
  ELSE LET inner == LeftFold(fn, callback, acc, xs, n - 1)
       IN CASE fn = "Reduce" -> Apply(callback, inner, xs[n])
            [] fn = "ReduceWithIndex" -> ApplyWithIndex(callback, inner, xs[n], n - 1)
            [] OTHER -> ApplyWithSlice(callback, inner, xs[n], n - 1, xs)

\* C17: the first invocation of the function returned by Reduce,
\* ReduceWithIndex or ReduceWithSlice returns the left fold of the slice in
\* index order starting from acc (acc itself for an empty slice), the callback
\* being passed each element's index, and the whole slice, by the variants.
C17_FirstInvocationIsLeftFold ==
  reducer.invocations = 1
  => /\ reducer.result
          = LeftFold(reducer.fn, reducer.callback, reducer.init, reducer.xs,
                     Len(reducer.xs))
     /\ reducer.xs = <<>> => reducer.result = reducer.init

C17_Witness ==
  /\ reducer.invocations = 1 /\ reducer.fn = "ReduceWithIndex"
  /\ reducer.callback = "horner" /\ reducer.init = 1
  /\ reducer.xs = <<2, 1, 2>> /\ reducer.result = 75

RefsOf(me) == {me.fieldsLogger, me.bodyBuf, me.rBody, me.ctx, me.wrappedWriter} \ {0}

\* C19: with several requests in WithLogger at once, every object a worker
\* refers to (field logger, body buffer, context, wrapped writer) is one it
\* made itself, a step of a worker changes no local and no object of another
\* worker, what a handler sees is its own request's body and request id, and
\* what all workers share (logger, tracer, configuration, options) is never
\* changed.
C19_PerRequestStateUnshared ==
  [][/\ process' = process
     /\ \A i \in Workers :
          /\ \A k \in RefsOf(workers'[i]) : heap'[k].owner = i
          /\ workers'[i].saw.body \in {Unread, workers'[i].r.body}
          /\ workers'[i].pc \in {"handled", "done"}
               => /\ workers'[i].saw.body = workers'[i].r.body
                  /\ workers'[i].saw.requestID = workers'[i].requestID
          /\ workers'[i] # workers[i]
               => /\ \A j \in Workers \ {i} : workers'[j] = workers[j]
                  /\ \A k \in DOMAIN heap : heap'[k] # heap[k] => heap[k].owner = i
                  /\ \A k \in DOMAIN heap' \ DOMAIN heap : heap'[k].owner = i]_vars

C19_Witness ==
  /\ process.opts.LogRequestBody
  /\ workers[1].pc = "done" /\ workers[2].pc = "handler"
  /\ workers[1].bodyBuf > workers[2].bodyBuf /\ workers[2].bodyBuf > 0
  /\ workers[1].saw.body = "{\"a\":1}" /\ workers[1].status = 201
  /\ heap[workers[2].bodyBuf].val = "{\"a\":2}"

\* C24: the function returned by Reduce is reusable: every invocation, not
\* only the first, starts from the initial acc, so its result is the left
\* fold of its slice from the acc given to Reduce.
C24_EveryInvocationFromInitialAcc ==
  reducer.invocations >= 1
  => reducer.result
       = LeftFold(reducer.fn, reducer.callback, reducer.init, reducer.xs,
                  Len(reducer.xs))

\* C25: over a sink that honours only the first WriteHeader, after any
\* sequence of WriteHeader and Write calls Status() equals the status code
\* the sink sent to the client.
C25_StatusIsWhatWasSent ==
  (pc = "writer" /\ w.wroteHeader) => Status(ww) = w.status

\* the modelled content types that contain "application/json" in any
\* letter case
JSONRequestAnyCase ==
  r.ct \in {"application/json", "Application/JSON", "application/json; charset=utf-8"}

\* C26: the parser agrees with the allow-list for every letter case of the
\* Content-Type: with LogRequestBody enabled, a delivered body that is not
\* valid JSON, sent with a Content-Type containing application/json in any
\* letter case, is rejected with 400 and never reaches the handler.
C26_ParserFollowsAllowListCase ==
  (InWithLogger /\ opts.LogRequestBody /\ JSONRequestAnyCase /\ Delivered
     /\ ~JSONUnmarshalOK(r.body))
  => /\ handler.invoked = 0
     /\ pc = "done" => w.status = StatusBadRequest

\* C22: with LogRequestBody set to false the middleware never reads the
\* request body, whatever the content type, never answers 400 or 500, and
\* the handler is invoked for every request, also for one with Content-Type
\* application/json and a malformed body, which it gets unread.
C22_OptionOffBodyUntouched ==
  (InWithLogger /\ ~opts.LogRequestBody)
  => /\ "middleware" \notin reads
     /\ w.status \notin {StatusBadRequest, StatusInternalServerError}
     /\ pc = "done" => handler.invoked = 1
     /\ (pc = "handler" /\ handler.saw = Unread) => rbody = BodyStream(r)

C22_Witness ==
  /\ InWithLogger /\ pc = "done" /\ ~opts.LogRequestBody
  /\ r.ct = "application/json" /\ r.body = "not-json" /\ Delivered
  /\ handler.invoked = 1 /\ handler.saw = "not-json" /\ reads = {"handler"}
  /\ w.status = 404

\* the function registered last, among those of a list, that sets a key
LastSetter(fs, key) ==
  LET is == {i \in DOMAIN fs : fs[i].key = key}
  IN fs[CHOOSE i \in is : \A j \in is : j <= i]

Sets(fs, key) == \E i \in DOMAIN fs : fs[i].key = key

\* C21: on every dispatched request the BeforeEach hooks and then the
\* WithMiddleware functions registered so far are each called once, in
\* registration order, each on the context the previous one returned: a value
\* one of them sets stays in the context unless a later one, or a standard
\* attachment after a hook, sets the same key.
C21_HooksOncePerRequestInOrder ==
  [][Dispatched =>
       /\ seen'.ctx.applied = suite.beforeEach \o suite.middlewares
       /\ \A key \in {"user", "custom"} :
            IF Sets(suite.middlewares, key)
            THEN seen'.ctx.vals[key] = LastSetter(suite.middlewares, key).val
            ELSE (/\ Sets(suite.beforeEach, key)
                  /\ key = "custom" \/ (key = "user" /\ ExpectedUser = Nil))
                 => seen'.ctx.vals[key] = LastSetter(suite.beforeEach, key).val]_vars

C21_Witness ==
  /\ Len(responses) = 2
  /\ Len(suite.beforeEach) = 2
  /\ suite.beforeEach[1].key = "custom" /\ suite.beforeEach[2].key = "user"
  /\ seen.ctx.applied = suite.beforeEach
  /\ seen.ctx.vals["custom"] = "from_hook" /\ seen.ctx.vals["user"] = "from_hook"
  /\ ~seen.ctx.params.Authenticated

\* C23: for one Response the body is parsed at most once: once a document
\* is cached, every further HTML() call returns a handle on that document and
\* parses nothing, and no HTML() call and no assertion or query method
\* changes the recorded status, headers or body.
C23_ParsedOnceQueriesPure ==
  [][~Dispatched =>
       /\ recorders' = recorders
       /\ \A i \in DOMAIN responses :
            /\ responses'[i].parses <= 1
            /\ responses[i].doc # "nil"
                 => /\ responses'[i].doc = responses[i].doc
                    /\ responses'[i].parses = responses[i].parses
                    /\ responses'[i].html \in {responses[i].html, responses[i].doc}
            /\ responses'[i].htmlCalls > responses[i].htmlCalls
                 => responses'[i].html = responses'[i].doc]_vars

C23_Witness ==
  /\ Len(responses) = 2
  /\ responses[2].htmlCalls = 2 /\ responses[2].parses = 1
  /\ responses[2].html = "<html><head></head><body>B</body></html>"
  /\ responses[2].query = <<"Element", responses[2].doc>>
  /\ responses[1].query[1] = "Status" /\ responses[1].doc = "nil"
  /\ recorders[responses[2].recorder].Body = "B"

====
